---- MODULE Spec2Model ----
(***************************************************************************)
(* mongoose-hrbac: the subject binding that a document schema gets from    *)
(* hrbacPlugin.  A subject is a document with a `role` and a list of       *)
(* ad-hoc `permissions`; every method asks the injected RBAC engine and/or *)
(* the document's save(), and answers through the caller's callback.       *)
(* Each call is modelled as the sequence of its continuations, so that the *)
(* continuations of two calls on the same document interleave.             *)
(***************************************************************************)
EXTENDS Integers, Sequences, FiniteSets, TLC

VARIABLES doc, store, call, nops

vars == <<doc, store, call, nops>>

-----------------------------------------------------------------------------
(* Bounds *)

\* number of calls started in one behaviour
MaxOps == 2

-----------------------------------------------------------------------------
(* Values *)

Null == "null"
Undefined == "undefined"

\* JavaScript truthiness of a role field (a String path, null or undefined)
Falsy(r) == r \in {Null, Undefined, ""}

Docs == {"d1", "d2"}
Calls == {1, 2}

ActionNames == {"read", "write", "purge"}
ResourceNames == {"doc"}

Range(s) == {s[i] : i \in 1..Len(s)}

NoDup(s) == \A i, j \in 1..Len(s) : s[i] = s[j] => i = j

-----------------------------------------------------------------------------
(* lodash / underscore helpers *)

NotFound == -1

RECURSIVE indexOfFrom(_, _, _)
indexOfFrom(list, x, i) ==
    IF i > Len(list) THEN NotFound
    ELSE IF list[i] = x THEN i - 1
    ELSE indexOfFrom(list, x, i + 1)

\* indexOf(array, value): the 0-based index of the first occurrence, or -1
indexOf(list, x) == indexOfFrom(list, x, 1)

\* a removal whose result is dropped: the list stays as it was
withoutDiscarded(list, x) == list

\* without(array, value): the array with every occurrence of value left out
without(list, x) == SelectSeq(list, LAMBDA e : e # x)

RECURSIVE uniq(_, _)
uniq(list, acc) ==
    IF list = <<>> THEN acc
    ELSE IF indexOf(acc, Head(list)) # NotFound THEN uniq(Tail(list), acc)
    ELSE uniq(Tail(list), Append(acc, Head(list)))

\* a union that keeps repeated values
unionKeepingRepeats(a, b) == a \o b

\* union(a, b): the unique values of a then b, in order of first occurrence
union(a, b) == uniq(a \o b, <<>>)

\* Array.prototype.push
push(list, x) == Append(list, x)

-----------------------------------------------------------------------------
(* The injected RBAC engine: a fixed hierarchy the subject binding queries *)

PermName(a, r) == a \o "_" \o r

EnginePermissions == {<<"read", "doc">>, <<"write", "doc">>}

EngineRoles == {"viewer", "editor"}

RolePermissions(role) ==
    IF role = "viewer" THEN {"read_doc"}
    ELSE IF role = "editor" THEN {"write_doc"}
    ELSE {}

RoleParents(role) == IF role = "editor" THEN {"viewer"} ELSE {}

RECURSIVE EffectivePermissions(_)
EffectivePermissions(role) ==
    RolePermissions(role) \cup
        UNION {EffectivePermissions(p) : p \in RoleParents(role)}

RECURSIVE Ancestors(_)
Ancestors(role) ==
    RoleParents(role) \cup UNION {Ancestors(p) : p \in RoleParents(role)}

NoPermission == [found |-> FALSE, name |-> ""]

\* rbac.getPermission(action, resource, cb): the permission, or nothing
EngineGetPermission(a, r) ==
    IF <<a, r>> \in EnginePermissions
    THEN [found |-> TRUE, name |-> PermName(a, r)]
    ELSE NoPermission

NoRole == [found |-> FALSE, name |-> ""]

\* rbac.getRole(name, cb): the role, or nothing
EngineGetRole(name) ==
    IF name \in EngineRoles THEN [found |-> TRUE, name |-> name] ELSE NoRole

\* rbac.can(roleName, action, resource, cb)
EngineCan(role, a, r) ==
    /\ <<a, r>> \in EnginePermissions
    /\ role \in EngineRoles
    /\ PermName(a, r) \in EffectivePermissions(role)

\* rbac.hasRole(roleName, candidate, cb)
EngineHasRole(role, candidate) ==
    /\ role \in EngineRoles
    /\ candidate \in {role} \cup Ancestors(role)

ScopeOrder == <<"read_doc", "write_doc">>

\* rbac.getScope(roleName, cb): the effective permission names of the role;
\* empty for an absent or unknown role
EngineGetScope(role) ==
    IF role \in EngineRoles
    THEN SelectSeq(ScopeOrder, LAMBDA p : p \in EffectivePermissions(role))
    ELSE <<>>

EngineError == "Engine error"
SaveError == "Save error"

-----------------------------------------------------------------------------
(* State *)

\* doc[d]: an in-memory document (the `this` of the methods)
\* store:  the persisted record the documents were loaded from
\* call[c]: one call in flight: its arguments, the continuation it waits
\*          for, and what the caller's callback received
\* nops:   calls started so far

PermNames == {PermName(a, r) : a \in ActionNames, r \in ResourceNames}

NoRecord == [role |-> Undefined, permissions |-> <<>>]

IdleCall ==
    [op |-> "none", doc |-> "", action |-> "", resource |-> "", name |-> "",
     role |-> "", pc |-> "idle", before |-> NoRecord,
     permissions |-> <<>>, alias |-> FALSE, askRole |-> "",
     snap |-> NoRecord, userKind |-> "none", user |-> NoRecord,
     err |-> "", out |-> "none", scope |-> <<>>, cbs |-> 0, saves |-> 0]

\* records a collection can hold before any call: the role field is a free
\* String path, the permissions a list of names without repetition
InitPermissions == {<<>>, <<"read_doc">>, <<"purge_doc", "read_doc">>}

InitRoles == {Undefined, "viewer", "ghost"}

InitRecords == [role : InitRoles, permissions : InitPermissions]

Init ==
    /\ store \in InitRecords
    /\ doc = [d \in Docs |-> store]
    /\ call = [c \in Calls |-> IdleCall]
    /\ nops = 0

\* a new call takes the lowest free slot
Free(c) ==
    /\ call[c].pc = "idle"
    /\ \A k \in Calls : k < c => call[k].pc # "idle"
    /\ nops < MaxOps

Begin(c, r) ==
    /\ call' = [call EXCEPT ![c] = r]
    /\ nops' = nops + 1

\* the call record of a method invoked on document d with the given fields
Invoke(op, d) == [IdleCall EXCEPT !.op = op, !.doc = d, !.before = doc[d]]

\* a local that holds the document's permissions array sees a push on it
Pushed(r, d, name) ==
    IF r.alias /\ r.doc = d THEN [r EXCEPT !.permissions = push(@, name)] ELSE r

\* ... and keeps the old array when the document is given a new one
Replaced(r, d) ==
    IF r.alias /\ r.doc = d THEN [r EXCEPT !.alias = FALSE] ELSE r

Bool(b) == IF b THEN "true" ELSE "false"

\* cb(err)
Fail(r, e) ==
    [r EXCEPT !.pc = "done", !.err = e, !.alias = FALSE, !.cbs = @ + 1]

\* cb(null, result)
Succeed(r, b) == [r EXCEPT !.pc = "done", !.out = Bool(b), !.cbs = @ + 1]

(* The persistence collaborator *)

\* a save that sends only what was added, merged into the stored record
SaveRecordMerged(this) ==
    [this EXCEPT !.permissions = union(store.permissions, this.permissions)]

\* the record a document hands to save(): the document as it is then
SaveRecord(this) == this

\* this.save(cb) is called: the continuation is pending
CallSave(r, this) ==
    [r EXCEPT !.pc = "save", !.snap = SaveRecord(this), !.saves = @ + 1]

\* what save() can hand its continuation: an error; no error and no record;
\* the record as persisted or the document itself; or the record found in
\* the store when the write did not take effect
SaveOutcomes(c) ==
    {[kind |-> "error", user |-> NoRecord],
     [kind |-> "nouser", user |-> NoRecord],
     [kind |-> "saved", user |-> call[c].snap],
     [kind |-> "saved", user |-> doc[call[c].doc]],
     [kind |-> "stale", user |-> store]}

Persist(c, o) ==
    store' = IF o.kind = "saved" THEN call[c].snap ELSE store

\* if (err) ...
SaveFailed(o) == o.kind = "error"

\* a continuation that forgets the record may be missing
UserMissingOnError(o) == o.kind = "error"

\* if (!user) ...
UserMissing(o) == o.kind \in {"error", "nouser"}

Received(r, o) == [r EXCEPT !.userKind = o.kind, !.user = o.user]

-----------------------------------------------------------------------------
(* can(rbac, action, resource, cb) *)

can(c, d, a, r) ==
    /\ Free(c)
    /\ Begin(c, [Invoke("can", d) EXCEPT !.action = a, !.resource = r,
                                         !.pc = "getPermission"])
    /\ UNCHANGED <<doc, store>>

\* a test that misses a name at index 0
canAdHocFromSecond(permissions, name) == indexOf(permissions, name) > 0

\* indexOf(this.permissions, permission.name) !== -1
canAdHoc(permissions, name) == indexOf(permissions, name) # NotFound

\* the continuation of rbac.getPermission
canGotPermission(c) ==
    /\ call[c].op = "can"
    /\ call[c].pc = "getPermission"
    /\ LET r == call[c]
           this == doc[r.doc]
           permission == EngineGetPermission(r.action, r.resource)
       IN \E engineErr \in BOOLEAN :
            call' = [call EXCEPT ![c] =
                IF engineErr THEN Fail(r, EngineError)
                ELSE IF ~permission.found THEN Succeed(r, FALSE)
                ELSE IF canAdHoc(this.permissions, permission.name)
                     THEN Succeed(r, TRUE)
                ELSE IF Falsy(this.role) THEN Succeed(r, FALSE)
                ELSE [r EXCEPT !.pc = "rbacCan", !.askRole = this.role]]
    /\ UNCHANGED <<doc, store, nops>>

\* rbac.can(this.role, action, resource, cb) answers the caller's callback
canAnswered(c) ==
    /\ call[c].op = "can"
    /\ call[c].pc = "rbacCan"
    /\ LET r == call[c]
       IN \E engineErr \in BOOLEAN :
            call' = [call EXCEPT ![c] =
                IF engineErr THEN Fail(r, EngineError)
                ELSE Succeed(r, EngineCan(r.askRole, r.action, r.resource))]
    /\ UNCHANGED <<doc, store, nops>>

-----------------------------------------------------------------------------
(* addPermission(rbac, action, resource, cb) *)

addPermission(c, d, a, r) ==
    /\ Free(c)
    /\ Begin(c, [Invoke("addPermission", d) EXCEPT !.action = a,
                                                   !.resource = r,
                                                   !.pc = "getPermission"])
    /\ UNCHANGED <<doc, store>>

\* a continuation without the existence check
permissionMissingNever(permission) == FALSE

\* if (!permission)
permissionMissing(permission) == ~permission.found

\* a test that misses a name at index 0
alreadyAssignedFromSecond(permissions, name) == indexOf(permissions, name) > 0

\* indexOf(this.permissions, permission.name) !== -1
alreadyAssigned(permissions, name) == indexOf(permissions, name) # NotFound

\* the continuation of rbac.getPermission
addPermissionGotPermission(c) ==
    /\ call[c].op = "addPermission"
    /\ call[c].pc = "getPermission"
    /\ LET r == call[c]
           d == r.doc
           permission == EngineGetPermission(r.action, r.resource)
       IN \E engineErr \in BOOLEAN :
            IF engineErr
            THEN /\ call' = [call EXCEPT ![c] = Fail(r, EngineError)]
                 /\ UNCHANGED doc
            ELSE IF permissionMissing(permission)
            THEN /\ call' = [call EXCEPT ![c] = Fail(r, "Permission not exists")]
                 /\ UNCHANGED doc
            ELSE IF alreadyAssigned(doc[d].permissions, permission.name)
            THEN /\ call' = [call EXCEPT ![c] =
                                Fail(r, "Permission is already assigned")]
                 /\ UNCHANGED doc
            ELSE /\ doc' = [doc EXCEPT ![d].permissions = push(@, permission.name)]
                 /\ call' = [k \in Calls |->
                                IF k = c THEN CallSave(r, doc'[d])
                                ELSE Pushed(call[k], d, permission.name)]
    /\ UNCHANGED <<store, nops>>

\* the continuation of this.save
addPermissionSaved(c) ==
    /\ call[c].op = "addPermission"
    /\ call[c].pc = "save"
    /\ \E o \in SaveOutcomes(c) :
         /\ Persist(c, o)
         /\ LET r == Received(call[c], o)
            IN call' = [call EXCEPT ![c] =
                   IF SaveFailed(o) THEN Fail(r, SaveError)
                   ELSE IF UserMissing(o) THEN Fail(r, "User is undefined")
                   ELSE Succeed(r, TRUE)]
    /\ UNCHANGED <<doc, nops>>

-----------------------------------------------------------------------------
(* removePermission(permissionName, cb) *)

\* indexOf(this.permissions, permissionName) === -1
notAssigned(permissions, name) == indexOf(permissions, name) = NotFound

\* the verification with its test inverted
notRemovedInverted(user, name) == indexOf(user.permissions, name) = NotFound

\* indexOf(user.permissions, permissionName) !== -1
notRemoved(user, name) == indexOf(user.permissions, name) # NotFound

removePermission(c, d, name) ==
    /\ Free(c)
    /\ LET r == [Invoke("removePermission", d) EXCEPT !.name = name]
       IN IF notAssigned(doc[d].permissions, name)
          THEN /\ Begin(c, Fail(r, "Permission was not asssigned"))
               /\ UNCHANGED doc
          ELSE /\ doc' = [doc EXCEPT ![d].permissions = without(@, name)]
               /\ call' = [k \in Calls |->
                              IF k = c THEN CallSave(r, doc'[d])
                              ELSE Replaced(call[k], d)]
               /\ nops' = nops + 1
    /\ UNCHANGED store

\* the continuation of this.save
removePermissionSaved(c) ==
    /\ call[c].op = "removePermission"
    /\ call[c].pc = "save"
    /\ \E o \in SaveOutcomes(c) :
         /\ Persist(c, o)
         /\ LET r == Received(call[c], o)
            IN call' = [call EXCEPT ![c] =
                   IF SaveFailed(o) THEN Fail(r, SaveError)
                   ELSE IF UserMissing(o) THEN Fail(r, "User is undefined")
                   ELSE IF notRemoved(o.user, r.name)
                        THEN Fail(r, "Permission was not removed")
                   ELSE Succeed(r, TRUE)]
    /\ UNCHANGED <<doc, nops>>

-----------------------------------------------------------------------------
(* hasRole(rbac, role, cb) *)

hasRole(c, d, role) ==
    /\ Free(c)
    /\ LET r == [Invoke("hasRole", d) EXCEPT !.role = role]
       IN IF Falsy(doc[d].role)
          THEN Begin(c, Succeed(r, FALSE))
          ELSE Begin(c, [r EXCEPT !.pc = "rbacHasRole",
                                  !.askRole = doc[d].role])
    /\ UNCHANGED <<doc, store>>

\* rbac.hasRole(this.role, role, cb) answers the caller's callback
hasRoleAnswered(c) ==
    /\ call[c].op = "hasRole"
    /\ call[c].pc = "rbacHasRole"
    /\ LET r == call[c]
       IN \E engineErr \in BOOLEAN :
            call' = [call EXCEPT ![c] =
                IF engineErr THEN Fail(r, EngineError)
                ELSE Succeed(r, EngineHasRole(r.askRole, r.role))]
    /\ UNCHANGED <<doc, store, nops>>

-----------------------------------------------------------------------------
(* removeRole(cb) *)

\* if (!this.role)
noRole(role) == Falsy(role)

\* a loose comparison: undefined counts as cleared
roleClearedLoose(user) == Falsy(user.role)

\* user.role === null
roleCleared(user) == user.role = Null

removeRole(c, d) ==
    /\ Free(c)
    /\ LET r == Invoke("removeRole", d)
       IN IF noRole(doc[d].role)
          THEN /\ Begin(c, Succeed(r, FALSE))
               /\ UNCHANGED doc
          ELSE /\ doc' = [doc EXCEPT ![d].role = Null]
               /\ Begin(c, CallSave(r, doc'[d]))
    /\ UNCHANGED store

\* the continuation of this.save
removeRoleSaved(c) ==
    /\ call[c].op = "removeRole"
    /\ call[c].pc = "save"
    /\ \E o \in SaveOutcomes(c) :
         /\ Persist(c, o)
         /\ LET r == Received(call[c], o)
            IN call' = [call EXCEPT ![c] =
                   IF SaveFailed(o) THEN Fail(r, SaveError)
                   ELSE IF UserMissing(o) THEN Fail(r, "User is undefined")
                   ELSE Succeed(r, roleCleared(o.user))]
    /\ UNCHANGED <<doc, nops>>

-----------------------------------------------------------------------------
(* setRole(rbac, role, cb) *)

\* a comparison of the role name with the role object: never equal
sameRoleAgainstObject(thisRole, role) == FALSE

\* this.role === role
sameRole(thisRole, role) == thisRole = role

setRole(c, d, role) ==
    /\ Free(c)
    /\ LET r == [Invoke("setRole", d) EXCEPT !.role = role]
       IN IF sameRole(doc[d].role, role)
          THEN Begin(c, Fail(r, "User already has assigned this role"))
          ELSE Begin(c, [r EXCEPT !.pc = "getRole"])
    /\ UNCHANGED <<doc, store>>

\* the continuation of rbac.getRole
setRoleGotRole(c) ==
    /\ call[c].op = "setRole"
    /\ call[c].pc = "getRole"
    /\ LET r == call[c]
           d == r.doc
           role == EngineGetRole(r.role)
       IN \E engineErr \in BOOLEAN :
            IF engineErr
            THEN /\ call' = [call EXCEPT ![c] = Fail(r, EngineError)]
                 /\ UNCHANGED doc
            ELSE IF ~role.found
            THEN /\ call' = [call EXCEPT ![c] = Fail(r, "Role does not exists")]
                 /\ UNCHANGED doc
            ELSE /\ doc' = [doc EXCEPT ![d].role = role.name]
                 /\ call' = [call EXCEPT ![c] = CallSave(r, doc'[d])]
    /\ UNCHANGED <<store, nops>>

\* the continuation of this.save
setRoleSaved(c) ==
    /\ call[c].op = "setRole"
    /\ call[c].pc = "save"
    /\ \E o \in SaveOutcomes(c) :
         /\ Persist(c, o)
         /\ LET r == Received(call[c], o)
            IN call' = [call EXCEPT ![c] =
                   IF SaveFailed(o) THEN Fail(r, SaveError)
                   ELSE IF UserMissing(o) THEN Fail(r, "User is undefined")
                   ELSE Succeed(r, o.user.role = doc[r.doc].role)]
    /\ UNCHANGED <<doc, nops>>

-----------------------------------------------------------------------------
(* getScope(rbac, cb) *)

getScope(c, d) ==
    /\ Free(c)
    /\ Begin(c, [Invoke("getScope", d) EXCEPT
                     !.permissions = doc[d].permissions, !.alias = TRUE,
                     !.askRole = doc[d].role, !.pc = "rbacGetScope"])
    /\ UNCHANGED <<doc, store>>

\* the continuation of rbac.getScope
getScopeAnswered(c) ==
    /\ call[c].op = "getScope"
    /\ call[c].pc = "rbacGetScope"
    /\ LET r == call[c]
       IN \E engineErr \in BOOLEAN :
            call' = [call EXCEPT ![c] =
                IF engineErr THEN Fail(r, EngineError)
                ELSE [r EXCEPT !.pc = "done", !.out = "scope",
                               !.scope = union(r.permissions,
                                               EngineGetScope(r.askRole)),
                               !.alias = FALSE, !.cbs = @ + 1]]
    /\ UNCHANGED <<doc, store, nops>>

-----------------------------------------------------------------------------
(* The statics: bulk updates of the collection *)

\* this.update(filter, update, {multi: true}, cb) is called
CallUpdate(r) == [r EXCEPT !.pc = "update", !.saves = @ + 1]

UpdateOutcomes == {"error", "updated"}

removeRoleFromCollection(c, roleName) ==
    /\ Free(c)
    /\ Begin(c, CallUpdate([IdleCall EXCEPT !.op = "removeRoleFromCollection",
                                            !.role = roleName]))
    /\ UNCHANGED <<doc, store>>

\* the continuation of this.update: {role: roleName} -> {role: null}
removeRoleFromCollectionUpdated(c) ==
    /\ call[c].op = "removeRoleFromCollection"
    /\ call[c].pc = "update"
    /\ \E o \in UpdateOutcomes :
         /\ store' = IF o = "updated" /\ store.role = call[c].role
                     THEN [store EXCEPT !.role = Null]
                     ELSE store
         /\ LET r == [call[c] EXCEPT !.userKind = o]
            IN call' = [call EXCEPT ![c] =
                   IF o = "error" THEN Fail(r, SaveError)
                   ELSE Succeed(r, TRUE)]
    /\ UNCHANGED <<doc, nops>>

removePermissionFromCollection(c, name) ==
    /\ Free(c)
    /\ Begin(c, CallUpdate([IdleCall EXCEPT
                               !.op = "removePermissionFromCollection",
                               !.name = name]))
    /\ UNCHANGED <<doc, store>>

\* the continuation of this.update: $pull {permissions: permissionName}
removePermissionFromCollectionUpdated(c) ==
    /\ call[c].op = "removePermissionFromCollection"
    /\ call[c].pc = "update"
    /\ \E o \in UpdateOutcomes :
         /\ store' = IF o = "updated"
                     THEN [store EXCEPT !.permissions = without(@, call[c].name)]
                     ELSE store
         /\ LET r == [call[c] EXCEPT !.userKind = o]
            IN call' = [call EXCEPT ![c] =
                   IF o = "error" THEN Fail(r, SaveError)
                   ELSE Succeed(r, TRUE)]
    /\ UNCHANGED <<doc, nops>>

-----------------------------------------------------------------------------
(* The caller *)

\* the caller has taken the completion: the slot is free for another call
Return(c) ==
    /\ call[c].pc = "done"
    /\ call' = [call EXCEPT ![c] = IdleCall]
    /\ UNCHANGED <<doc, store, nops>>

\* the subject object the calls are made on (one document, shared by the
\* calls in flight)
Subject == "d1"

RoleArgs == {"viewer", "editor", "ghost"}

Next ==
    \E c \in Calls :
        \/ \E a \in ActionNames, r \in ResourceNames : can(c, Subject, a, r)
        \/ canGotPermission(c)
        \/ canAnswered(c)
        \/ \E a \in ActionNames, r \in ResourceNames :
               addPermission(c, Subject, a, r)
        \/ addPermissionGotPermission(c)
        \/ addPermissionSaved(c)
        \/ \E n \in PermNames : removePermission(c, Subject, n)
        \/ removePermissionSaved(c)
        \/ \E role \in RoleArgs : hasRole(c, Subject, role)
        \/ hasRoleAnswered(c)
        \/ removeRole(c, Subject)
        \/ removeRoleSaved(c)
        \/ \E role \in RoleArgs : setRole(c, Subject, role)
        \/ setRoleGotRole(c)
        \/ setRoleSaved(c)
        \/ getScope(c, Subject)
        \/ getScopeAnswered(c)
        \/ \E role \in RoleArgs : removeRoleFromCollection(c, role)
        \/ removeRoleFromCollectionUpdated(c)
        \/ \E n \in PermNames : removePermissionFromCollection(c, n)
        \/ removePermissionFromCollectionUpdated(c)
        \/ Return(c)

Spec == Init /\ [][Next]_vars

\* the continuations the engine and the persistence collaborator invoke
Continue(c) ==
    \/ canGotPermission(c)
    \/ canAnswered(c)
    \/ addPermissionGotPermission(c)
    \/ addPermissionSaved(c)
    \/ removePermissionSaved(c)
    \/ hasRoleAnswered(c)
    \/ removeRoleSaved(c)
    \/ setRoleGotRole(c)
    \/ setRoleSaved(c)
    \/ getScopeAnswered(c)
    \/ removeRoleFromCollectionUpdated(c)
    \/ removePermissionFromCollectionUpdated(c)

\* a subject with a role and an ad-hoc permission, or with neither
FairInit ==
    /\ Init
    /\ store \in {[role |-> "viewer", permissions |-> <<"read_doc">>],
                  [role |-> Undefined, permissions |-> <<>>]}

\* every collaborator invokes the continuation it was given
FairSpec ==
    FairInit /\ [][Next]_vars /\ \A c \in Calls : WF_vars(Continue(c))

\* two documents loaded from the same record, and addPermission calls on them
NextRace ==
    \E c \in Calls :
        \/ \E d \in Docs, a \in ActionNames, r \in ResourceNames :
               addPermission(c, d, a, r)
        \/ addPermissionGotPermission(c)
        \/ addPermissionSaved(c)
        \/ Return(c)

SpecRace == Init /\ [][NextRace]_vars

-----------------------------------------------------------------------------
(* Properties *)

Mutators == {"addPermission", "removePermission", "setRole", "removeRole"}

\* the engine answered the call's query (it did not report an error)
Answered(c) == call'[c].err # EngineError

\* call c leaves the program counter `from` in this step
Leaves(c, op, from) ==
    /\ call[c].op = op
    /\ call[c].pc = from
    /\ call'[c].pc # from

\* call c is invoked in this step
Invoked(c, op) ==
    /\ call[c].pc = "idle"
    /\ call'[c].op = op

Completed(r, e, o) == r.pc = "done" /\ r.err = e /\ r.out = o

Count(list, x) == Cardinality({i \in 1..Len(list) : list[i] = x})

C1_Step(c) ==
    LET r == call[c]
        n == call'[c]
        this == doc[r.doc]
        known == <<r.action, r.resource>> \in EnginePermissions
        adhoc == PermName(r.action, r.resource) \in Range(this.permissions)
        hasrole == this.role \notin {Null, Undefined}
    IN /\ (Leaves(c, "can", "getPermission") /\ Answered(c)) =>
            /\ (~known \/ (~adhoc /\ ~hasrole)) => Completed(n, "", "false")
            /\ (known /\ adhoc) => Completed(n, "", "true")
            /\ (known /\ ~adhoc /\ hasrole) =>
                   (n.pc = "rbacCan" /\ n.askRole = this.role)
       /\ (Leaves(c, "can", "rbacCan") /\ Answered(c)) =>
            Completed(n, "", Bool(EngineCan(r.askRole, r.action, r.resource)))

\* C1: when the engine answers, can completes with true exactly when the
\* engine knows the permission and its name is in the subject's ad-hoc list
\* or the subject has a role for which engine.can is true; an unknown
\* permission, or one that is not ad-hoc on a subject without a role,
\* completes with false and no error.
C1_CanDecision == [][\A c \in Calls : C1_Step(c)]_vars

\* a subject without a role is granted an ad-hoc permission
C1_Witness ==
    \E c \in Calls :
        /\ call[c].op = "can"
        /\ Completed(call[c], "", "true")
        /\ doc[call[c].doc].role = Undefined
        /\ PermName(call[c].action, call[c].resource)
               \in Range(doc[call[c].doc].permissions)

C2_Step(c) ==
    LET r == call[c]
        n == call'[c]
        d == r.doc
        known == <<r.action, r.resource>> \in EnginePermissions
        name == PermName(r.action, r.resource)
        assigned == name \in Range(doc[d].permissions)
    IN (Leaves(c, "addPermission", "getPermission") /\ Answered(c)) =>
            /\ ~known =>
                   /\ Completed(n, "Permission not exists", "none")
                   /\ n.saves = 0 /\ doc' = doc
            /\ (known /\ assigned) =>
                   /\ Completed(n, "Permission is already assigned", "none")
                   /\ n.saves = 0 /\ doc' = doc
            /\ (known /\ ~assigned) =>
                   /\ doc'[d].permissions = Append(doc[d].permissions, name)
                   /\ doc'[d].role = doc[d].role
                   /\ n.pc = "save" /\ n.saves = 1 /\ n.snap = doc'[d]

C2_SaveCalls ==
    \A c \in Calls :
        call[c].op = "addPermission" =>
            /\ call[c].saves <= 1
            /\ call[c].err \in {"Permission not exists",
                                "Permission is already assigned"}
                   => call[c].saves = 0

\* C2: addPermission fails with 'Permission not exists' when the engine has
\* no such permission and with 'Permission is already assigned' when its
\* name is in the ad-hoc list, without calling save; otherwise it appends the
\* name and calls save once.
C2_AddPermission == [][\A c \in Calls : C2_Step(c)]_vars /\ []C2_SaveCalls

\* an addPermission that appended, saved once and completed with true
C2_Witness ==
    \E c \in Calls :
        /\ call[c].op = "addPermission"
        /\ Completed(call[c], "", "true")
        /\ call[c].saves = 1
        /\ PermName(call[c].action, call[c].resource)
               \in Range(doc[call[c].doc].permissions)
        /\ PermName(call[c].action, call[c].resource)
               \notin Range(call[c].before.permissions)

C3_NoDup == \A d \in Docs : NoDup(doc[d].permissions)

C3_Step(c) ==
    LET r == call[c]
        n == call'[c]
        name == PermName(r.action, r.resource)
    IN (/\ Leaves(c, "addPermission", "getPermission")
        /\ Answered(c)
        /\ <<r.action, r.resource>> \in EnginePermissions
        /\ name \in Range(doc[r.doc].permissions)) =>
            /\ Completed(n, "Permission is already assigned", "none")
            /\ Count(doc'[r.doc].permissions, name) = 1

\* C3: under every interleaving of addPermission and removePermission on one
\* subject the ad-hoc list never holds a name twice; an addPermission for a
\* name already in the list fails with 'Permission is already assigned' and
\* the list holds exactly one entry for it.
C3_NoDuplicates == []C3_NoDup /\ [][\A c \in Calls : C3_Step(c)]_vars

\* a second addPermission for the pair another call has added already
C3_Witness ==
    \E c, k \in Calls :
        /\ c # k
        /\ call[c].op = "addPermission" /\ call[k].op = "addPermission"
        /\ call[c].doc = call[k].doc
        /\ call[c].action = call[k].action
        /\ call[k].pc \in {"save", "done"} /\ call[k].saves = 1
        /\ Completed(call[c], "Permission is already assigned", "none")
        /\ Count(doc[call[c].doc].permissions,
                 PermName(call[c].action, call[c].resource)) = 1

C4_Step(c) ==
    LET r == call[c]
        n == call'[c]
        d == n.doc
        assigned == n.name \in Range(doc[d].permissions)
    IN /\ Invoked(c, "removePermission") =>
            /\ ~assigned =>
                   /\ n.pc = "done" /\ n.err # "" /\ n.out = "none"
                   /\ n.saves = 0 /\ doc' = doc
            /\ assigned =>
                   /\ n.name \notin Range(doc'[d].permissions)
                   /\ doc'[d].permissions =
                          SelectSeq(doc[d].permissions, LAMBDA e : e # n.name)
                   /\ doc'[d].role = doc[d].role
                   /\ n.pc = "save" /\ n.saves = 1
       /\ Leaves(c, "removePermission", "save") =>
            /\ n.pc = "done" /\ n.saves = 1
            /\ n.out = "true" =>
                   /\ n.userKind \in {"saved", "stale"}
                   /\ r.name \notin Range(n.user.permissions)
            /\ (n.userKind \in {"saved", "stale"}
                    /\ r.name \in Range(n.user.permissions)) =>
                   Completed(n, "Permission was not removed", "none")

\* C4: removePermission of a name not in the list completes with an error,
\* leaves the list unchanged and does not call save; otherwise it removes
\* every occurrence, calls save, completes with true only if the record
\* save returns does not contain the name, and with 'Permission was not
\* removed' if that record still contains it.
C4_RemovePermission == [][\A c \in Calls : C4_Step(c)]_vars

\* the record save returned still holds the removed name
C4_Witness ==
    \E c \in Calls :
        /\ call[c].op = "removePermission"
        /\ Completed(call[c], "Permission was not removed", "none")
        /\ call[c].name \in Range(call[c].user.permissions)
        /\ call[c].name \notin Range(call[c].snap.permissions)

C5_Step(c) ==
    LET r == call[c]
        n == call'[c]
    IN /\ Invoked(c, "setRole") =>
            /\ doc' = doc
            /\ n.saves = 0
            /\ IF doc[n.doc].role = n.role
               THEN Completed(n, "User already has assigned this role", "none")
               ELSE n.pc = "getRole"
       /\ (Leaves(c, "setRole", "getRole") /\ Answered(c)) =>
            IF r.role \in EngineRoles
            THEN /\ doc'[r.doc].role = r.role
                 /\ doc'[r.doc].permissions = doc[r.doc].permissions
                 /\ n.pc = "save" /\ n.saves = 1 /\ n.snap = doc'[r.doc]
            ELSE /\ Completed(n, "Role does not exists", "none")
                 /\ n.saves = 0 /\ doc' = doc
       /\ Leaves(c, "setRole", "save") => (n.saves = 1 /\ doc' = doc)

\* C5: setRole fails with 'User already has assigned this role' when the
\* subject's role equals roleName and with 'Role does not exists' when the
\* engine has no such role, leaving the role and the ad-hoc permissions
\* unchanged and never calling save; otherwise the role becomes the engine
\* role's name and save is called once.
C5_SetRole == [][\A c \in Calls : C5_Step(c)]_vars

\* setRole to the current role failed and the document is as it was
C5_Witness ==
    \E c \in Calls :
        /\ call[c].op = "setRole"
        /\ Completed(call[c], "User already has assigned this role", "none")
        /\ call[c].role = "viewer"
        /\ call[c].saves = 0
        /\ doc[call[c].doc] = call[c].before

C6_Step(c) ==
    LET r == call[c]
        n == call'[c]
        d == n.doc
    IN /\ Invoked(c, "removeRole") =>
            IF doc[d].role \in {Null, Undefined}
            THEN /\ Completed(n, "", "false")
                 /\ n.saves = 0 /\ doc' = doc
            ELSE /\ doc'[d].role = Null
                 /\ doc'[d].permissions = doc[d].permissions
                 /\ n.pc = "save" /\ n.saves = 1
       /\ Leaves(c, "removeRole", "save") =>
            /\ n.pc = "done" /\ n.saves = 1 /\ doc' = doc
            /\ n.out = "true" <=>
                   (n.userKind \in {"saved", "stale"} /\ n.user.role = Null)
            /\ n.userKind \in {"saved", "stale"} => (n.err = "" /\ n.out # "none")

\* C6: removeRole on a subject without a role completes with false and no
\* error, calls no save and changes nothing; on a subject with a role it
\* sets the role to null, calls save once, leaves the ad-hoc permissions
\* alone and completes with true exactly when the record save returns has a
\* null role; so a removeRole right after a successful one gives false.
C6_RemoveRole == [][\A c \in Calls : C6_Step(c)]_vars

\* a removeRole on the subject whose role a removeRole has just cleared
C6_Witness ==
    \E c \in Calls :
        /\ call[c].op = "removeRole"
        /\ Completed(call[c], "", "false")
        /\ call[c].before.role = Null
        /\ call[c].saves = 0
        /\ nops = 2

RoleScope(role) ==
    IF role \in EngineRoles THEN EffectivePermissions(role) ELSE {}

C7_Step(c) ==
    LET r == call[c]
        n == call'[c]
    IN /\ Invoked(c, "getScope") =>
            /\ doc' = doc
            /\ n.permissions = doc[n.doc].permissions
            /\ n.askRole = doc[n.doc].role
       /\ Leaves(c, "getScope", "rbacGetScope") => doc' = doc
       /\ (Leaves(c, "getScope", "rbacGetScope") /\ Answered(c)) =>
            /\ Completed(n, "", "scope")
            /\ Range(n.scope) = Range(r.permissions) \cup RoleScope(r.askRole)
            /\ NoDup(n.scope)
            /\ r.askRole \in {Null, Undefined} =>
                   Range(n.scope) = Range(r.permissions)

C7_SameScope ==
    \A c, k \in Calls :
        (/\ call[c].op = "getScope" /\ call[k].op = "getScope"
         /\ call[c].out = "scope" /\ call[k].out = "scope"
         /\ call[c].before = call[k].before
         /\ call[c].permissions = call[k].permissions)
            => call[c].scope = call[k].scope

\* C7: getScope completes with the set union of the subject's ad-hoc names
\* and the engine's scope for its role, each name once; with no role the
\* result is the ad-hoc names; it changes neither role nor list, and two
\* calls on the same subject state give the same set.
C7_GetScope == [][\A c \in Calls : C7_Step(c)]_vars /\ []C7_SameScope

\* a name both ad-hoc and in the role's scope appears once in the result
C7_Witness ==
    \E c \in Calls :
        /\ call[c].op = "getScope"
        /\ Completed(call[c], "", "scope")
        /\ call[c].askRole = "viewer"
        /\ "read_doc" \in Range(call[c].permissions)
        /\ Count(call[c].scope, "read_doc") = 1

\* calls c and k are completed addPermissions of different permissions on
\* two copies, neither copy holding what the other call added
C8_Race(c, k) ==
    /\ c # k
    /\ call[c].op = "addPermission" /\ call[k].op = "addPermission"
    /\ Completed(call[c], "", "true") /\ Completed(call[k], "", "true")
    /\ call[c].doc # call[k].doc
    /\ call[c].action # call[k].action
    /\ PermName(call[c].action, call[c].resource)
           \notin Range(doc[call[k].doc].permissions)
    /\ PermName(call[k].action, call[k].resource)
           \notin Range(doc[call[c].doc].permissions)

\* C8: when two addPermission calls for different permissions, each on its
\* own copy of the stored record, have both completed with success, the
\* stored record does not hold both permissions: one update is lost.
C8_LostUpdate ==
    \A c, k \in Calls :
        C8_Race(c, k) =>
            ~ {PermName(call[c].action, call[c].resource),
               PermName(call[k].action, call[k].resource)}
                  \subseteq Range(store.permissions)

\* both saves were persisted, both calls succeeded, one permission is stored
C8_Witness ==
    \E c, k \in Calls :
        /\ C8_Race(c, k)
        /\ call[c].userKind = "saved" /\ call[k].userKind = "saved"
        /\ PermName(call[c].action, call[c].resource)
               \in Range(store.permissions)
        /\ PermName(call[k].action, call[k].resource)
               \notin Range(store.permissions)

InFlight(c) == call[c].pc \notin {"idle", "done"}

C9_Once ==
    \A c \in Calls :
        /\ call[c].cbs <= 1
        /\ call[c].pc = "done" <=> call[c].cbs = 1
        /\ call[c].pc = "done" => (call[c].err # "") # (call[c].out # "none")
        /\ call[c].saves <= 1
        /\ (call[c].pc = "done" /\ call[c].userKind \in {"error", "nouser"})
               => (call[c].err # "" /\ call[c].out = "none")

\* C9: when the engine and the persistence collaborator invoke their
\* continuations, every call invokes the caller's callback exactly once,
\* with an error or a result and never both; a save or update that reports
\* an error or returns no record gives an error; save/update is called at
\* most once in a call.
C9_OneCompletion ==
    /\ []C9_Once
    /\ \A c \in Calls : InFlight(c) ~> (call[c].pc = "done")

\* a save that returned no record was reported as an error, once
C9_Witness ==
    \E c \in Calls :
        /\ call[c].op = "setRole"
        /\ call[c].userKind = "nouser"
        /\ Completed(call[c], "User is undefined", "none")
        /\ call[c].cbs = 1 /\ call[c].saves = 1

C10_Step(c) ==
    LET r == call[c]
        n == call'[c]
    IN /\ (n.pc # r.pc /\ n.op \in Mutators /\ n.saves = 0) => doc' = doc
       /\ (r.op \in Mutators /\ r.pc = "save" /\ n.pc # "save") => doc' = doc

C10_Alone ==
    \A c \in Calls :
        (/\ call[c].op \in Mutators
         /\ call[c].pc = "done"
         /\ call[c].err # ""
         /\ nops = 1)
            => IF call[c].saves = 0
               THEN doc[call[c].doc] = call[c].before
               ELSE /\ doc[call[c].doc] = call[c].snap
                    /\ doc[call[c].doc] # call[c].before

\* C10 (amended): a mutator that completes with an error before it calls
\* save leaves the subject's role and ad-hoc permissions as they were; one
\* that fails after calling save (save reports an error, returns no record,
\* or the verification fails) leaves the subject with the change it made
\* before saving.
C10_FailedCall == [][\A c \in Calls : C10_Step(c)]_vars /\ []C10_Alone

\* a failed save left the pushed permission on the subject, not in the store
C10_Witness ==
    \E c \in Calls :
        /\ call[c].op = "addPermission"
        /\ Completed(call[c], SaveError, "none")
        /\ nops = 1
        /\ doc[call[c].doc].permissions =
               Append(call[c].before.permissions,
                      PermName(call[c].action, call[c].resource))
        /\ store = call[c].before

\* C10 (as claimed): a mutator that completes with an error leaves the
\* subject's role and ad-hoc permissions as they were before the call (stated
\* for a call made alone on the subject).
C10_FailedCallUnchanged ==
    \A c \in Calls :
        (/\ call[c].op \in Mutators
         /\ call[c].pc = "done"
         /\ call[c].err # ""
         /\ nops = 1)
            => doc[call[c].doc] = call[c].before

====
